---- MODULE Spec2Model ----
(***************************************************************************)
(* hungarian_algorithm / hungarian_core of src/wasm/src/lib.rs as a state  *)
(* machine.  One behaviour is one call.  f64 values are modelled by        *)
(* integers (every arithmetic operation of the solver is + or - on the     *)
(* input values, exact in f64 for the small integers used here) and        *)
(* f64::INFINITY by a value above every finite value the model reaches.    *)
(* Flat 0-indexed Vecs are sequences read through At0; the 1-indexed       *)
(* scratch arrays of hungarian_core are functions on 0..size.              *)
(***************************************************************************)
EXTENDS Integers, Sequences, FiniteSets, TLC

VARIABLES
    cost_matrix,  \* the caller's flat row-major input
    num_rows,     \* n
    num_cols,     \* m
    size,         \* n.max(m)
    cost,         \* the padded size x size matrix
    workers,      \* parallel build: number of contiguous row ranges
    prog,         \* parallel build: rows finished per range
    parts,        \* parallel build: cells produced per range
    u, v,         \* potentials
    p,            \* p[j] = row matched to column j, 0 = none
    way,          \* way[j] = previous column on the augmenting path
    i,            \* the outer loop's row
    j0,           \* current column
    minv, used,   \* per-iteration scratch
    assignment,   \* the result
    pc,           \* position in the call
    fault,        \* which index check panicked, "none" if none
    passes,       \* history: search passes made in the current outer iteration
    wayFresh,     \* history: columns whose way[] was written in this iteration
    walked,       \* history: columns rewritten by this iteration's reconstruction
    matchedPrev   \* history: columns matched when the previous iteration ended

vars == <<cost_matrix, num_rows, num_cols, size, cost, workers, prog, parts,
          u, v, p, way, i, j0, minv, used, assignment, pc, fault,
          passes, wayFresh, walked, matchedPrev>>

(***************************************************************************)
(* Bounds of the model.                                                    *)
(***************************************************************************)
\* rows and cols of the solver runs range over 0..MaxDim
MaxDim == 3
\* inputs of at most MaxCells cells are enumerated over CostVals
MaxCells == 9
\* seeds of the generated inputs
MaxSeed == 40
\* the parallel build splits the rows into 1..MaxWorkers ranges
MaxWorkers == 3

\* cell values of the enumerated inputs (negative, zero, positive)
CostVals == {-1, 0, 2}

\* if size > 50
PAR_THRESHOLD == 50

\* f64::INFINITY
INFINITY == 1000000

(***************************************************************************)
(* f64 operations on the modelled values.                                  *)
(***************************************************************************)
FSub(a, b) ==
    IF a = INFINITY THEN INFINITY
    ELSE IF b = INFINITY THEN -INFINITY
    ELSE IF a = -INFINITY THEN -INFINITY
    ELSE a - b

FAdd(a, b) ==
    IF a = INFINITY \/ b = INFINITY THEN INFINITY
    ELSE IF a = -INFINITY THEN -INFINITY
    ELSE a + b

Max(a, b) == IF a >= b THEN a ELSE b
Min(a, b) == IF a <= b THEN a ELSE b

\* vec[k] of a 0-indexed Vec
At0(vec, k) == vec[k + 1]

(***************************************************************************)
(* The inputs.                                                             *)
(***************************************************************************)
\* a deterministic spread of values in -4..6
Gen(s, k) == ((s * (k + 3) + 7 * k * k + s * s) % 11) - 4

GenSeq(s, len) == [k \in 1..len |-> Gen(s, k)]

ScenarioA == <<1, 2, 3, 4, 5, 6, 7, 8, 9>>
ScenarioB == <<1, 5, 2, 3, 1, 4>>

\* the valid inputs for an n x m call
ValidInputs(n, m) ==
    (IF n * m <= MaxCells THEN [1..(n * m) -> CostVals] ELSE {})
    \cup {GenSeq(s, n * m) : s \in 0..MaxSeed}
    \cup (IF n = 3 /\ m = 3 THEN {ScenarioA} ELSE {})
    \cup (IF n = 2 /\ m = 3 THEN {ScenarioB} ELSE {})

\* inputs whose length is not rows * cols: one cell short, one cell long
MismatchedInputs(n, m) ==
    {GenSeq(s, n * m + 1) : s \in 0..MaxSeed}
    \cup (IF n * m > 0 THEN {GenSeq(s, n * m - 1) : s \in 0..MaxSeed} ELSE {})

\* shapes on both sides of the threshold, for the two build strategies
BuildShapes ==
    {<<PAR_THRESHOLD - 1, PAR_THRESHOLD - 1>>, <<PAR_THRESHOLD, 3>>,
     <<PAR_THRESHOLD + 1, PAR_THRESHOLD + 1>>, <<PAR_THRESHOLD + 1, 2>>,
     <<3, PAR_THRESHOLD + 2>>}

InitCall(cm, n, m) ==
    /\ cost_matrix = cm
    /\ num_rows = n
    /\ num_cols = m
    /\ size = 0
    /\ cost = <<>>
    /\ workers = 0
    /\ prog = <<>>
    /\ parts = <<>>
    /\ u = <<>>
    /\ v = <<>>
    /\ p = <<>>
    /\ way = <<>>
    /\ i = 0
    /\ j0 = 0
    /\ minv = <<>>
    /\ used = <<>>
    /\ assignment = <<>>
    /\ pc = "start"
    /\ fault = "none"
    /\ passes = 0
    /\ wayFresh = {}
    /\ walked = {}
    /\ matchedPrev = {}

Init ==
    \E n \in 0..MaxDim, m \in 0..MaxDim :
        \E cm \in ValidInputs(n, m) \cup MismatchedInputs(n, m) :
            InitCall(cm, n, m)

InitBuild ==
    \E sh \in BuildShapes :
        InitCall(GenSeq(1, sh[1] * sh[2]), sh[1], sh[2])

(***************************************************************************)
(* hungarian_algorithm: the padded cost matrix.                            *)
(***************************************************************************)
\* the cell the sequential fill leaves at (i, j): vec![0.0; size*size], then
\* cost[i*size+j] = cost_matrix[i*m+j] inside the window
SeqCell(cm, n, m, r, c) ==
    IF r < n /\ c < m THEN At0(cm, r * m + c) ELSE 0

SeqPadded(cm, n, m, sz) ==
    [k \in 1..(sz * sz) |-> SeqCell(cm, n, m, (k - 1) \div sz, (k - 1) % sz)]

\* cost_matrix[i*m+j] is read for every i < n, j < m: some index is out of range
ReadsPastEnd(cm, n, m) ==
    \E r \in 0..(n - 1), c \in 0..(m - 1) : r * m + c >= Len(cm)

\* the closure of the parallel fill
ParCell(cm, n, m, r, c) ==
    IF r < n /\ c < m THEN At0(cm, r * m + c) ELSE 0

\* flat_map_iter's inner iterator for row r: (0..size).map(...)
ParRow(cm, n, m, sz, r) ==
    [k \in 1..sz |-> ParCell(cm, n, m, r, k - 1)]

\* the rows of range w when 0..size is split into nw contiguous ranges
RangeLo(w, nw, sz) == ((w - 1) * sz) \div nw
RangeHi(w, nw, sz) == (w * sz) \div nw

\* the ranges' outputs appended last range first
RECURSIVE CollectBackFrom(_, _)
CollectBackFrom(ps, w) ==
    IF w < 1 THEN <<>> ELSE ps[w] \o CollectBackFrom(ps, w - 1)

Collect_LastFirst(ps, nw) == CollectBackFrom(ps, nw)

\* collect(): the ranges' outputs appended in range order
RECURSIVE CollectFrom(_, _, _)
CollectFrom(ps, w, nw) ==
    IF w > nw THEN <<>> ELSE ps[w] \o CollectFrom(ps, w + 1, nw)

Collect(ps, nw) == CollectFrom(ps, 1, nw)

Enter ==
    /\ pc = "start"
    /\ size' = Max(num_rows, num_cols)
    /\ pc' = IF Max(num_rows, num_cols) > PAR_THRESHOLD THEN "fork" ELSE "seq"
    /\ UNCHANGED <<cost_matrix, num_rows, num_cols, cost, workers, prog, parts,
                   u, v, p, way, i, j0, minv, used, assignment, fault,
                   passes, wayFresh, walked, matchedPrev>>

BuildSeq ==
    /\ pc = "seq"
    /\ IF ReadsPastEnd(cost_matrix, num_rows, num_cols)
       THEN /\ pc' = "panic"
            /\ fault' = "cost_matrix"
            /\ cost' = cost
       ELSE /\ pc' = "core"
            /\ fault' = fault
            /\ cost' = SeqPadded(cost_matrix, num_rows, num_cols, size)
    /\ UNCHANGED <<cost_matrix, num_rows, num_cols, size, workers, prog, parts,
                   u, v, p, way, i, j0, minv, used, assignment,
                   passes, wayFresh, walked, matchedPrev>>

\* into_par_iter(): the pool splits 0..size into contiguous ranges
ParFork ==
    /\ pc = "fork"
    /\ \E nw \in 1..MaxWorkers :
        /\ workers' = nw
        /\ prog' = [w \in 1..nw |-> 0]
        /\ parts' = [w \in 1..nw |-> <<>>]
    /\ pc' = "par"
    /\ UNCHANGED <<cost_matrix, num_rows, num_cols, size, cost,
                   u, v, p, way, i, j0, minv, used, assignment, fault,
                   passes, wayFresh, walked, matchedPrev>>

\* one row task of range w; the ranges advance in any interleaving
ParTask ==
    /\ pc = "par"
    /\ \E w \in 1..workers :
        LET r == RangeLo(w, workers, size) + prog[w] IN
        /\ r < RangeHi(w, workers, size)
        /\ IF r < num_rows
              /\ \E c \in 0..(num_cols - 1) : r * num_cols + c >= Len(cost_matrix)
           THEN /\ pc' = "panic"
                /\ fault' = "cost_matrix"
                /\ UNCHANGED <<prog, parts>>
           ELSE /\ prog' = [prog EXCEPT ![w] = @ + 1]
                /\ parts' = [parts EXCEPT
                        ![w] = @ \o ParRow(cost_matrix, num_rows, num_cols, size, r)]
                /\ UNCHANGED <<pc, fault>>
    /\ UNCHANGED <<cost_matrix, num_rows, num_cols, size, cost, workers,
                   u, v, p, way, i, j0, minv, used, assignment,
                   passes, wayFresh, walked, matchedPrev>>

ParJoin ==
    /\ pc = "par"
    /\ \A w \in 1..workers :
        RangeLo(w, workers, size) + prog[w] = RangeHi(w, workers, size)
    /\ cost' = Collect(parts, workers)
    /\ pc' = "core"
    /\ UNCHANGED <<cost_matrix, num_rows, num_cols, size, workers, prog, parts,
                   u, v, p, way, i, j0, minv, used, assignment, fault,
                   passes, wayFresh, walked, matchedPrev>>

(***************************************************************************)
(* hungarian_core: the solver.                                             *)
(***************************************************************************)
Zeros(sz) == [j \in 0..sz |-> 0]

\* the tracker allocated like the potentials, vec![0.0; size + 1]
MinvInit_Zero(sz) == [j \in 0..sz |-> 0]

\* vec![f64::INFINITY; size + 1]
MinvInit(sz) == [j \in 0..sz |-> INFINITY]

\* vec![false; size + 1]
UsedInit(sz) == [j \in 0..sz |-> FALSE]

\* the visited mark left out
MarkUsed_Skip(us, j) == us

\* used[j0] = true
MarkUsed(us, j) == [us EXCEPT ![j] = TRUE]

\* the reduced cost without the column potential
Reduced_NoColumnPotential(c, sz, uu, vv, r, j) ==
    FSub(At0(c, (r - 1) * sz + (j - 1)), uu[r])

\* cost[(i0 - 1) * size + (j - 1)] - u[i0] - v[j]
Reduced(c, sz, uu, vv, r, j) ==
    FSub(FSub(At0(c, (r - 1) * sz + (j - 1)), uu[r]), vv[j])

\* the columns 1..size with a row
Matched(pp, sz) == {j \in 1..sz : pp[j] # 0}

CoreInit ==
    /\ pc = "core"
    /\ u' = Zeros(size)
    /\ v' = Zeros(size)
    /\ p' = Zeros(size)
    /\ way' = Zeros(size)
    /\ i' = 1
    /\ pc' = "iter"
    /\ UNCHANGED <<cost_matrix, num_rows, num_cols, size, cost, workers, prog,
                   parts, j0, minv, used, assignment, fault,
                   passes, wayFresh, walked, matchedPrev>>

\* for i in 1..=size: the head of one outer iteration, or the loop's exit
IterStart ==
    /\ pc = "iter"
    /\ \/ /\ i <= size
          /\ p' = [p EXCEPT ![0] = i]
          /\ j0' = 0
          /\ minv' = MinvInit(size)
          /\ used' = UsedInit(size)
          /\ passes' = 0
          /\ wayFresh' = {}
          /\ walked' = {}
          /\ pc' = "search"
       \/ /\ i > size
          /\ pc' = "project"
          /\ UNCHANGED <<p, j0, minv, used, passes, wayFresh, walked>>
    /\ UNCHANGED <<cost_matrix, num_rows, num_cols, size, cost, workers, prog,
                   parts, u, v, way, i, assignment, fault, matchedPrev>>

\* the body of `for j in 1..=size` for one column; st = [minv, way, delta, j1]
\* and fresh, the columns whose way[] this pass wrote
ScanStep(st, c, sz, uu, vv, us, i0, jcur, j) ==
    IF us[j] THEN st
    ELSE LET cur == Reduced(c, sz, uu, vv, i0, j)
             better == cur < st.minv[j]
             st1 == IF better
                    THEN [st EXCEPT !.minv[j] = cur, !.way[j] = jcur,
                                    !.fresh = @ \cup {j}]
                    ELSE st
         IN  IF st1.minv[j] < st1.delta
             THEN [st1 EXCEPT !.delta = st1.minv[j], !.j1 = j]
             ELSE st1

RECURSIVE ScanFrom(_, _, _, _, _, _, _, _, _)
ScanFrom(st, c, sz, uu, vv, us, i0, jcur, j) ==
    IF j > sz THEN st
    ELSE ScanFrom(ScanStep(st, c, sz, uu, vv, us, i0, jcur, j),
                  c, sz, uu, vv, us, i0, jcur, j + 1)

\* the update without v[j] -= delta
UpdateStep_RowOnly(st, us, pp, delta, j) ==
    IF us[j]
    THEN [st EXCEPT !.u[pp[j]] = FAdd(@, delta)]
    ELSE [st EXCEPT !.minv[j] = FSub(@, delta)]

\* the body of `for j in 0..=size` of the potential update; st = [u, v, minv]
UpdateStep(st, us, pp, delta, j) ==
    IF us[j]
    THEN [st EXCEPT !.u[pp[j]] = FAdd(@, delta), !.v[j] = FSub(@, delta)]
    ELSE [st EXCEPT !.minv[j] = FSub(@, delta)]

RECURSIVE UpdateFrom(_, _, _, _, _, _)
UpdateFrom(st, us, pp, delta, sz, j) ==
    IF j > sz THEN st
    ELSE UpdateFrom(UpdateStep(st, us, pp, delta, j), us, pp, delta, sz, j + 1)

\* one pass of the search loop
SearchPass ==
    /\ pc = "search"
    /\ LET us == MarkUsed(used, j0)
           i0 == p[j0]
       IN  IF \E j \in 1..size :
                  /\ ~us[j]
                  /\ \/ i0 < 1
                     \/ i0 > size
                     \/ (i0 - 1) * size + (j - 1) >= Len(cost)
           THEN /\ pc' = "panic"
                /\ fault' = "cost"
                /\ UNCHANGED <<u, v, way, j0, minv, used, passes, wayFresh>>
           ELSE LET sc == ScanFrom([minv |-> minv, way |-> way,
                                    delta |-> INFINITY, j1 |-> 0, fresh |-> {}],
                                   cost, size, u, v, us, i0, j0, 1)
                    up == UpdateFrom([u |-> u, v |-> v, minv |-> sc.minv],
                                     us, p, sc.delta, size, 0)
                IN  /\ used' = us
                    /\ way' = sc.way
                    /\ u' = up.u
                    /\ v' = up.v
                    /\ minv' = up.minv
                    /\ j0' = sc.j1
                    /\ wayFresh' = wayFresh \cup sc.fresh
                    /\ passes' = IF passes <= size THEN passes + 1 ELSE passes
                    /\ pc' = IF p[sc.j1] = 0 THEN "recon" ELSE "search"
                    /\ fault' = fault
    /\ UNCHANGED <<cost_matrix, num_rows, num_cols, size, cost, workers, prog,
                   parts, p, i, assignment, walked, matchedPrev>>

\* p[j0] = p[0]: every column of the path takes the new row
ReconP_NewRow(pp, w, j) == [pp EXCEPT ![j] = pp[0]]

\* p[j0] = p[j1] with j1 = way[j0]
ReconP(pp, w, j) == [pp EXCEPT ![j] = pp[w[j]]]

\* one step of the reconstruction loop
ReconStep ==
    /\ pc = "recon"
    /\ LET j1 == way[j0]
           np == ReconP(p, way, j0)
       IN  /\ p' = np
           /\ j0' = j1
           /\ walked' = walked \cup {j0}
           /\ IF j1 = 0
              THEN /\ i' = i + 1
                   /\ matchedPrev' = Matched(np, size)
                   /\ pc' = "iter"
              ELSE UNCHANGED <<i, matchedPrev, pc>>
    /\ UNCHANGED <<cost_matrix, num_rows, num_cols, size, cost, workers, prog,
                   parts, u, v, way, minv, used, assignment, fault,
                   passes, wayFresh>>

(***************************************************************************)
(* hungarian_core: the result.                                             *)
(***************************************************************************)
\* the guard without j <= m
ProjectGuard_AnyColumn(pj, n, m, j) == pj > 0 /\ pj <= n

\* the guard with j < m
ProjectGuard_ColumnOffByOne(pj, n, m, j) == pj > 0 /\ pj <= n /\ j < m

\* the guard without p[j] <= n
ProjectGuard_AnyRow(pj, n, m, j) == pj > 0 /\ j <= m

\* p[j] > 0 && p[j] <= n && j <= m
ProjectGuard(pj, n, m, j) == pj > 0 /\ pj <= n /\ j <= m

\* assignment[p[j] - 1] = (j - 1) as i32
ProjectStep(asg, pp, n, m, j) ==
    IF ProjectGuard(pp[j], n, m, j) THEN [asg EXCEPT ![pp[j]] = j - 1] ELSE asg

RECURSIVE ProjectFrom(_, _, _, _, _, _)
ProjectFrom(asg, pp, n, m, sz, j) ==
    IF j > sz THEN asg
    ELSE ProjectFrom(ProjectStep(asg, pp, n, m, j), pp, n, m, sz, j + 1)

Project ==
    /\ pc = "project"
    /\ IF \E j \in 1..size :
              ProjectGuard(p[j], num_rows, num_cols, j)
              /\ (p[j] < 1 \/ p[j] > num_rows)
       THEN /\ pc' = "panic"
            /\ fault' = "assignment"
            /\ UNCHANGED assignment
       ELSE /\ assignment' = ProjectFrom([r \in 1..num_rows |-> -1], p,
                                         num_rows, num_cols, size, 1)
            /\ pc' = "done"
            /\ fault' = fault
    /\ UNCHANGED <<cost_matrix, num_rows, num_cols, size, cost, workers, prog,
                   parts, u, v, p, way, i, j0, minv, used,
                   passes, wayFresh, walked, matchedPrev>>

(***************************************************************************)
(* The specifications.  Spec is the whole call on inputs of at most       *)
(* MaxDim rows and columns (all below the threshold, so the matrix is      *)
(* filled sequentially); SpecBuild is the matrix construction alone on     *)
(* shapes on both sides of the threshold.                                  *)
(***************************************************************************)
Next ==
    \/ Enter
    \/ BuildSeq
    \/ CoreInit
    \/ IterStart
    \/ SearchPass
    \/ ReconStep
    \/ Project

Spec == Init /\ [][Next]_vars

NextBuild ==
    \/ Enter
    \/ BuildSeq
    \/ ParFork
    \/ ParTask
    \/ ParJoin

SpecBuild == InitBuild /\ [][NextBuild]_vars

(***************************************************************************)
(* Definitions used to state the properties.                               *)
(***************************************************************************)
\* length(cost) = rows * cols
Valid == Len(cost_matrix) = num_rows * num_cols

InSolver == pc \in {"iter", "search", "recon", "project", "done"}

\* the zero-padded matrix, from the caller's input
Padded(r, c) ==
    IF r <= num_rows /\ c <= num_cols
    THEN cost_matrix[(r - 1) * num_cols + c]
    ELSE 0

Perms(sz) ==
    {f \in [1..sz -> 1..sz] : \A a, b \in 1..sz : a # b => f[a] # f[b]}

RECURSIVE PermCostFrom(_, _, _)
PermCostFrom(f, r, sz) ==
    IF r > sz THEN 0 ELSE Padded(r, f[r]) + PermCostFrom(f, r + 1, sz)

PermCost(f, sz) == PermCostFrom(f, 1, sz)

\* the sum of cost[i][result[i]] over the rows with result[i] # -1
RECURSIVE ResultCostFrom(_, _)
ResultCostFrom(asg, r) ==
    IF r > Len(asg) THEN 0
    ELSE (IF asg[r] = -1 THEN 0 ELSE cost_matrix[(r - 1) * num_cols + asg[r] + 1])
         + ResultCostFrom(asg, r + 1)

ResultCost == ResultCostFrom(assignment, 1)

Assigned == {r \in 1..Len(assignment) : assignment[r] # -1}

\* cost[r][j] - u[r] - v[j] on the padded matrix the solver holds
RedCost(r, j) == cost[(r - 1) * size + j] - u[r] - v[j]

(***************************************************************************)
(* The properties.                                                         *)
(***************************************************************************)
\* C1: on a valid call the result has length rows, every entry is -1 or in
\* 0..cols-1, and no two entries other than -1 are equal.
C1_ResultShape ==
    (Valid /\ pc = "done") =>
        /\ Len(assignment) = num_rows
        /\ \A r \in 1..Len(assignment) :
            assignment[r] = -1 \/ assignment[r] \in 0..(num_cols - 1)
        /\ \A a, b \in 1..Len(assignment) :
            (a # b /\ assignment[a] # -1) => assignment[a] # assignment[b]

C1_Witness ==
    /\ Valid
    /\ pc = "done"
    /\ num_rows = 3
    /\ num_cols = 2
    /\ \E r \in 1..3 : assignment[r] = -1
    /\ \E r \in 1..3 : assignment[r] = 1

\* C2: on a valid call the cost of the returned assignment is the minimum
\* total over all perfect matchings of the zero-padded square matrix; 15 on
\* scenario A, and 2 with result [0, 1] on scenario B.
C2_MinimumCost ==
    (Valid /\ pc = "done") =>
        /\ \A f \in Perms(size) : ResultCost <= PermCost(f, size)
        /\ \E f \in Perms(size) : ResultCost = PermCost(f, size)
        /\ (num_rows = 3 /\ num_cols = 3 /\ cost_matrix = ScenarioA)
                => ResultCost = 15
        /\ (num_rows = 2 /\ num_cols = 3 /\ cost_matrix = ScenarioB)
                => (ResultCost = 2 /\ assignment = <<0, 1>>)

C2_Witness ==
    /\ pc = "done"
    /\ num_rows = 2
    /\ num_cols = 3
    /\ cost_matrix = ScenarioB
    /\ assignment = <<0, 1>>

\* C3: on a valid call exactly min(rows, cols) entries of the result are not
\* -1: none is -1 when rows <= cols, exactly rows - cols are when rows > cols,
\* the result is empty when rows = 0 and all -1 when cols = 0.
C3_AssignedCount ==
    (Valid /\ pc = "done") =>
        /\ Cardinality(Assigned) = Min(num_rows, num_cols)
        /\ num_rows <= num_cols => \A r \in 1..Len(assignment) : assignment[r] # -1
        /\ num_rows > num_cols =>
            Cardinality({r \in 1..Len(assignment) : assignment[r] = -1})
                = num_rows - num_cols
        /\ num_rows = 0 => assignment = <<>>
        /\ num_cols = 0 => assignment = [r \in 1..num_rows |-> -1]

C3_Witness ==
    /\ Valid
    /\ pc = "done"
    /\ num_rows = 3
    /\ num_cols = 1
    /\ Cardinality(Assigned) = 1

\* C4: a call whose cost sequence is not rows * cols long fails before the
\* solver runs and never returns an assignment.
C4_MismatchFailsFast ==
    ~Valid => pc \in {"start", "seq", "fork", "par", "panic"}

\* C5: the matrix the build hands to the solver, by either strategy and under
\* every split and interleaving of the row tasks, is the one the sequential
\* fill computes from the same input: cell (i, j) is input[i*cols+j] inside
\* the rows x cols window and 0 outside, rows in ascending order.
C5_BuildDeterministic ==
    pc = "core" =>
        /\ Len(cost) = size * size
        /\ cost = SeqPadded(cost_matrix, num_rows, num_cols, size)
        /\ \A r \in 0..(size - 1), c \in 0..(size - 1) :
            cost[r * size + c + 1] =
                IF r < num_rows /\ c < num_cols
                THEN cost_matrix[r * num_cols + c + 1]
                ELSE 0

C5_Witness ==
    /\ pc = "core"
    /\ size > PAR_THRESHOLD
    /\ workers = 3
    /\ num_rows = 3
    /\ cost[num_cols] = cost_matrix[num_cols]
    /\ cost[3 * size + 1] = 0

\* C6: when the outer iteration for row i has completed, exactly i columns of
\* 1..size are matched and p maps them one-to-one onto the rows 1..i; a column
\* matched when an iteration ended is matched ever after; after the last
\* iteration p[1..size] is a permutation of 1..size.
C6_MatchingGrows ==
    /\ pc = "iter" =>
        /\ Cardinality(Matched(p, size)) = i - 1
        /\ {p[j] : j \in Matched(p, size)} = 1..(i - 1)
    /\ InSolver => matchedPrev \subseteq Matched(p, size)
    /\ pc \in {"project", "done"} =>
        /\ \A j \in 1..size : p[j] \in 1..size
        /\ \A a, b \in 1..size : a # b => p[a] # p[b]

C6_Witness ==
    /\ pc = "iter"
    /\ size = 3
    /\ i = 4
    /\ Cardinality(walked) = 3
    /\ Cardinality(Matched(p, size)) = 3

\* C7: at every step of the solver every matched pair (column j of 1..size
\* with p[j] # 0, row p[j]) has reduced cost 0, and when the outer iteration
\* for row i has completed every pair (r, j) with r in 1..i, j in 1..size has
\* reduced cost >= 0.
C7_PotentialsConsistent ==
    /\ InSolver => \A j \in Matched(p, size) : RedCost(p[j], j) = 0
    /\ pc \in {"iter", "project", "done"} =>
        \A r \in 1..(i - 1), j \in 1..size : RedCost(r, j) >= 0

C7_Witness ==
    /\ pc = "iter"
    /\ size = 3
    /\ i = 3
    /\ \E k \in 1..Len(cost) : cost[k] < 0
    /\ \E r \in 1..2 : u[r] > 0
    /\ \E j \in 1..3 : v[j] < 0
    /\ \E r \in 1..2, j \in 1..3 : p[j] # r /\ RedCost(r, j) > 0

\* C8: every pass of a search selects a column of 1..size not yet visited, a
\* search makes at most i passes in outer iteration i, the reconstruction
\* never revisits a column and makes at most as many steps as the search made
\* passes.
C8_SearchBounded ==
    /\ (pc = "search" /\ passes > 0) => (j0 \in 1..size /\ ~used[j0])
    /\ pc = "recon" =>
        /\ j0 \in 1..size
        /\ walked = {} => (~used[j0] /\ p[j0] = 0)
        /\ j0 \notin walked
    /\ pc \in {"search", "recon"} => passes <= i
    /\ InSolver => Cardinality(walked) <= passes

C8_Witness ==
    /\ pc = "recon"
    /\ size = 3
    /\ i = 3
    /\ passes = 3
    /\ Cardinality(walked) = 2

\* C9: the reconstruction of outer iteration i reads way[j] only for columns
\* whose way[j] was written by iteration i's own search.
C9_WayFresh ==
    pc = "recon" => j0 \in wayFresh

C9_Witness ==
    /\ pc = "recon"
    /\ i = 3
    /\ walked # {}
    /\ way[j0] # 0
    /\ j0 \in wayFresh

\* C10: on a valid call no index is out of range: the row p[j0] whose costs
\* the next pass reads is in 1..size, every visited column holds a row of
\* 1..size, and the call does not panic.
C10_IndicesInRange ==
    Valid =>
        /\ pc # "panic"
        /\ fault = "none"
        /\ pc = "search" =>
            /\ p[j0] \in 1..size
            /\ \A j \in 0..size : used[j] => p[j] \in 1..size
        /\ pc \in {"project", "done"} =>
            \A j \in 1..size : p[j] <= num_rows => p[j] \in 1..num_rows

C10_Witness ==
    /\ Valid
    /\ pc = "done"
    /\ num_rows = 2
    /\ num_cols = 3
    /\ \E j \in 1..3 : p[j] = 3

====
